---- MODULE Spec2Model ----
(***************************************************************************)
(* EachScheduling (src/src/xdist/scheduler/each.py): the scheduler that    *)
(* runs every test item on every node and hands the unfinished items of a  *)
(* removed node to a later node with the same spec.                        *)
(*                                                                         *)
(* The scheduler is driven one call at a time, so every method is one      *)
(* action.  A method that raises keeps whatever it assigned before the     *)
(* raise; `last` records the call just made and how it ended.              *)
(***************************************************************************)
EXTENDS Integers, Sequences, FiniteSets, TLC

\* ------------------------------------------------------------------ bounds
\* length of the collection a healthy node reports
MaxLen == 3
\* largest number of configured tx specs (numnodes)
MaxNodes == 2

\* ------------------------------------------------------------- environment
\* WorkerController handles; a removed handle may be added again
Workers == {"w1", "w2"}
\* node.gateway.id
GatewayId(node) == node
\* gateway specs: the two handles fill the same role or different ones
SpecChoices == {[w \in Workers |-> "popen"],
                [w \in Workers |-> IF w = "w1" THEN "popen" ELSE "ssh"]}
\* item identifiers (node ids of tests), in the order a healthy node collects
ItemNames == <<"t1", "t2", "t3", "t4">>
\* the first n items in order, and the same items in the opposite order
Prefix(n) == [i \in 1..n |-> ItemNames[i]]
Reversed(n) == [i \in 1..n |-> ItemNames[n + 1 - i]]
\* the collections a node may report: the healthy collection, the healthy
\* one without its last item, and the healthy one in another order
Collections == {Prefix(MaxLen - 1), Prefix(MaxLen), Reversed(MaxLen)}
\* values of XDIST_ALLOWED_WORKERS, already split at "," and stripped
EnvValues == {<<>>, <<"w1", "">>}
\* item_index arguments of mark_test_complete
Indices == 0..(MaxLen - 1)

\* ------------------------------------------------------ python containers
\* A dict that is iterated is a sequence of <<key, value>> in insertion order.
DictKeys(d) == {d[i][1] : i \in DOMAIN d}
DictHas(d, k) == k \in DictKeys(d)
DictGet(d, k) == d[CHOOSE i \in DOMAIN d : d[i][1] = k][2]
\* d[k] = v: an existing key keeps its place, a new key goes last
DictSet(d, k, v) ==
    IF DictHas(d, k)
    THEN [i \in DOMAIN d |-> IF d[i][1] = k THEN <<k, v>> ELSE d[i]]
    ELSE Append(d, <<k, v>>)
\* d.pop(k): the dict without k
DictPop(d, k) == SelectSeq(d, LAMBDA e : e[1] # k)
\* the indices counted from one
Range_fromone(n) == [i \in 1..n |-> i]

\* list(range(n))
Range(n) == [i \in 1..n |-> i - 1]
\* i in lst
InList(lst, i) == \E j \in DOMAIN lst : lst[j] = i
\* lst.remove(i): drops the first occurrence
\* the head is dropped whatever index was asked for
ListRemove_head(lst, i) == Tail(lst)

ListRemove(lst, i) ==
    LET j == CHOOSE x \in DOMAIN lst :
                 lst[x] = i /\ \A y \in DOMAIN lst : lst[y] = i => x <= y
    IN  [x \in 1..(Len(lst) - 1) |-> IF x < j THEN lst[x] ELSE lst[x + 1]]

\* ------------------------------------------------------------------ state
VARIABLES
    gateway_spec,             \* node.gateway.spec of every handle
    numnodes,                 \* self.numnodes
    allowed_workers,          \* self._allowed_workers
    node2collection,          \* self.node2collection (function on its keys)
    node2pending,             \* self.node2pending (insertion ordered)
    started,                  \* self._started
    removed2pending,          \* self._removed2pending (insertion ordered)
    collection_is_completed,  \* self.collection_is_completed
    sent,                     \* commands each node has been sent so far
    last,                     \* the call just made and its outcome
    removed_any,              \* some node2pending.pop(node) has succeeded
    inherited,                \* nodes whose pending list came from a dead node
    orphaned,                 \* what each dead node left: its pending list at
                              \* death without the crash item
    joined_since              \* a node was added since schedule last ran

vars == <<gateway_spec, numnodes, allowed_workers, node2collection, node2pending, started,
          removed2pending, collection_is_completed, sent, last, removed_any,
          inherited, orphaned, joined_since>>

\* node.gateway.spec
GatewaySpec(node) == gateway_spec[node]

\* bookkeeping of the run, no field of the scheduler
history == <<removed_any, inherited, orphaned, joined_since>>

\* the scheduler's own fields
sched == <<node2collection, node2pending, started, removed2pending,
           collection_is_completed>>

\* op: the method called; res: "ok" or the exception it raised; ret: the
\* value returned; diag: messages passed to self.log during the call
NoCall == [op |-> "init", res |-> "ok", ret |-> "None", diag |-> 0]

Call(op, res, ret, diag) == [op |-> op, res |-> res, ret |-> ret, diag |-> diag]

\* self.node2collection = {}
NoCollections == [w \in {} |-> <<>>]

\* ----------------------------------------------------------- construction
\* _parse_allowed_workers: the non-empty entries of the variable
ParseAllowedWorkers(env) == {env[i] : i \in {j \in DOMAIN env : env[j] # ""}}

IsAllowedWorker(node) ==
    IF allowed_workers = {} THEN TRUE ELSE GatewayId(node) \in allowed_workers

Init ==
    /\ gateway_spec \in SpecChoices
    /\ numnodes \in 1..MaxNodes
    /\ allowed_workers \in {ParseAllowedWorkers(e) : e \in EnvValues}
    /\ node2collection = NoCollections
    /\ node2pending = <<>>
    /\ started = {}
    /\ removed2pending = <<>>
    /\ collection_is_completed = FALSE
    /\ sent = [w \in Workers |-> <<>>]
    /\ last = NoCall
    /\ removed_any = FALSE
    /\ inherited = {}
    /\ orphaned = [w \in Workers |-> <<>>]
    /\ joined_since = FALSE

\* ------------------------------------------------------------- properties
nodes == [i \in DOMAIN node2pending |-> node2pending[i][1]]

\* without the look at _removed2pending
tests_finished_live ==
    IF ~collection_is_completed THEN FALSE
    ELSE \A i \in DOMAIN node2pending : Len(node2pending[i][2]) < 2

tests_finished ==
    IF ~collection_is_completed THEN FALSE
    ELSE IF removed2pending # <<>> THEN FALSE
    ELSE \A i \in DOMAIN node2pending : Len(node2pending[i][2]) < 2

has_pending == \E i \in DOMAIN node2pending : node2pending[i][2] # <<>>

\* ---------------------------------------------------------------- add_node
\* without the assertion: a registered node starts over with nothing pending
add_node_unchecked(node) ==
    /\ node2pending' = DictSet(node2pending, node, <<>>)
    /\ joined_since' = TRUE
    /\ last' = Call("add_node", "ok", "None", 0)
    /\ UNCHANGED <<node2collection, started, removed2pending,
                   collection_is_completed, sent, removed_any, inherited, orphaned>>

add_node(node) ==
    IF DictHas(node2pending, node)
    THEN /\ last' = Call("add_node", "AssertionError", "None", 0)
         /\ UNCHANGED <<sched, sent, history>>
    ELSE /\ node2pending' = DictSet(node2pending, node, <<>>)
         /\ joined_since' = TRUE
         /\ last' = Call("add_node", "ok", "None", 0)
         /\ UNCHANGED <<node2collection, started, removed2pending,
                        collection_is_completed, sent, removed_any, inherited,
                        orphaned>>

\* ----------------------------------------------------- add_node_collection
\* only the number of items is compared
SameCollection_len(collection, dead_collection) ==
    Len(collection) = Len(dead_collection)

\* collection != dead_collection, negated: element for element, in order
SameCollection(collection, dead_collection) == collection = dead_collection

\* the first dead node, whatever its spec
FirstDead_anyspec(node) == IF removed2pending = <<>> THEN 0 ELSE 1

\* the last dead node with the spec of `node`, not the first
LastDeadWithSpec(node) ==
    LET hits == {i \in DOMAIN removed2pending :
                    GatewaySpec(removed2pending[i][1]) = GatewaySpec(node)}
    IN  IF hits = {} THEN 0
        ELSE CHOOSE i \in hits : \A j \in hits : i >= j

\* position in _removed2pending of the first dead node with the spec of
\* `node`, 0 when the loop finds none
FirstDeadWithSpec(node) ==
    LET hits == {i \in DOMAIN removed2pending :
                    GatewaySpec(removed2pending[i][1]) = GatewaySpec(node)}
    IN  IF hits = {} THEN 0
        ELSE CHOOSE i \in hits : \A j \in hits : i <= j

\* the entry is read but left in the dict
PopRemoved_kept(deadnode) == removed2pending

\* self._removed2pending after .pop(deadnode)
PopRemoved(deadnode) == DictPop(removed2pending, deadnode)

\* completion decided by the number of registered nodes, not of collections
RecordCollection_registered(node, collection) ==
    /\ node2collection' =
           [w \in DOMAIN node2collection \cup {node} |->
               IF w = node THEN collection ELSE node2collection[w]]
    /\ node2pending' = DictSet(node2pending, node, <<>>)
    /\ collection_is_completed' =
           (Cardinality(DictKeys(node2pending)) >= numnodes)
    /\ inherited' = inherited \ {node}
    /\ last' = Call("add_node_collection", "ok", "None", 0)
    /\ UNCHANGED <<started, removed2pending, sent, removed_any, orphaned,
                   joined_since>>

\* the branch taken before the collection is complete
RecordCollection(node, collection) ==
    /\ node2collection' =
           [w \in DOMAIN node2collection \cup {node} |->
               IF w = node THEN collection ELSE node2collection[w]]
    /\ node2pending' = DictSet(node2pending, node, <<>>)
    /\ collection_is_completed' =
           (Cardinality(DOMAIN node2collection \cup {node}) >= numnodes)
    /\ inherited' = inherited \ {node}
    /\ last' = Call("add_node_collection", "ok", "None", 0)
    /\ UNCHANGED <<started, removed2pending, sent, removed_any, orphaned,
                   joined_since>>

\* the branch taken once the collection is complete: the node replaces the
\* first dead node of its spec, if that node collected the same items
ReplaceDeadNode(node, collection) ==
    LET i == FirstDeadWithSpec(node) IN
    IF i = 0
    THEN /\ last' = Call("add_node_collection", "ok", "None", 0)
         /\ UNCHANGED <<sched, sent, history>>
    ELSE LET deadnode == removed2pending[i][1]
             dead_collection == node2collection[deadnode]
         IN  IF ~SameCollection(collection, dead_collection)
             THEN \* report_collection_diff, self.log(msg), return
                  /\ last' = Call("add_node_collection", "ok", "None", 1)
                  /\ UNCHANGED <<sched, sent, history>>
             ELSE /\ removed2pending' = PopRemoved(deadnode)
                  /\ node2pending' =
                         DictSet(node2pending, node, removed2pending[i][2])
                  /\ inherited' = inherited \cup {node}
                  /\ orphaned' = [orphaned EXCEPT ![deadnode] = <<>>]
                  /\ last' = Call("add_node_collection", "ok", "None", 0)
                  /\ UNCHANGED <<node2collection, started,
                                 collection_is_completed, sent, removed_any,
                                 joined_since>>

add_node_collection(node, collection) ==
    IF ~DictHas(node2pending, node)
    THEN /\ last' = Call("add_node_collection", "AssertionError", "None", 0)
         /\ UNCHANGED <<sched, sent, history>>
    ELSE IF ~collection_is_completed
    THEN RecordCollection(node, collection)
    ELSE ReplaceDeadNode(node, collection)

\* ------------------------------------------------------ mark_test_complete
mark_test_complete(node, item_index) ==
    IF ~DictHas(node2pending, node)
    THEN /\ last' = Call("mark_test_complete", "KeyError", "None", 0)
         /\ UNCHANGED <<sched, sent, history>>
    ELSE IF ~InList(DictGet(node2pending, node), item_index)
    THEN /\ last' = Call("mark_test_complete", "ValueError", "None", 0)
         /\ UNCHANGED <<sched, sent, history>>
    ELSE /\ node2pending' =
                DictSet(node2pending, node,
                        ListRemove(DictGet(node2pending, node), item_index))
         /\ last' = Call("mark_test_complete", "ok", "None", 0)
         /\ UNCHANGED <<node2collection, started, removed2pending,
                        collection_is_completed, sent, history>>

\* -------------------------------------------------------------- remove_node
\* what is stashed for a later replacement: the pending list after pop(0)
Remainder(pending) == Tail(pending)

remove_node(node) ==
    IF ~DictHas(node2pending, node)
    THEN /\ last' = Call("remove_node", "KeyError", "None", 0)
         /\ UNCHANGED <<sched, sent, history>>
    ELSE
    LET pending == DictGet(node2pending, node) IN
    /\ node2pending' = DictPop(node2pending, node)
    /\ removed_any' = TRUE
    /\ inherited' = inherited \ {node}
    /\ UNCHANGED <<node2collection, started, collection_is_completed, sent,
                   joined_since>>
    /\ IF pending = <<>>
       THEN /\ last' = Call("remove_node", "ok", "None", 0)
            /\ UNCHANGED <<removed2pending, orphaned>>
       ELSE IF node \notin DOMAIN node2collection
       THEN \* self.node2collection[node] raises before pending.pop(0) runs
            /\ last' = Call("remove_node", "KeyError", "None", 0)
            /\ UNCHANGED <<removed2pending, orphaned>>
       ELSE IF Head(pending) >= Len(node2collection[node])
       THEN \* the subscript raises after pending.pop(0)
            /\ last' = Call("remove_node", "IndexError", "None", 0)
            /\ UNCHANGED <<removed2pending, orphaned>>
       ELSE /\ last' = Call("remove_node", "ok",
                            node2collection[node][Head(pending) + 1], 0)
            /\ IF Remainder(pending) # <<>>
               THEN /\ removed2pending' =
                           DictSet(removed2pending, node, Remainder(pending))
                    /\ orphaned' =
                           [orphaned EXCEPT
                               ![node] = SubSeq(pending, 2, Len(pending))]
               ELSE UNCHANGED <<removed2pending, orphaned>>

\* ----------------------------------------------------------------- schedule
Shutdown == [cmd |-> "shutdown", arg |-> <<>>]
RuntestAll == [cmd |-> "runtest_all", arg |-> <<>>]
RuntestSome(pending) == [cmd |-> "runtest_some", arg |-> pending]

\* a node without a stored collection is treated as having collected nothing:
\* it is sent run-all and shutdown and marked started
ScheduleNode_runall(st, i) ==
    LET node == st.node2pending[i][1]
        pending == st.node2pending[i][2]
    IN  IF node \in st.started THEN st
        ELSE IF ~IsAllowedWorker(node)
        THEN [st EXCEPT !.sent[node] = Append(@, Shutdown),
                        !.started = @ \cup {node}]
        ELSE IF pending = <<>>
        THEN [st EXCEPT
                 !.node2pending[i] =
                     <<node, IF node \in DOMAIN node2collection
                             THEN Range(Len(node2collection[node]))
                             ELSE <<>> >>,
                 !.sent[node] = @ \o <<RuntestAll, Shutdown>>,
                 !.started = @ \cup {node}]
        ELSE [st EXCEPT !.sent[node] = Append(@, RuntestSome(pending)),
                        !.started = @ \cup {node}]

\* one pass of the loop body for the entry at position i; st carries the
\* fields the loop writes and res, which stops the loop once it is not "ok"
ScheduleNode(st, i) ==
    LET node == st.node2pending[i][1]
        pending == st.node2pending[i][2]
    IN  IF node \in st.started THEN st
        ELSE IF ~IsAllowedWorker(node)
        THEN [st EXCEPT !.sent[node] = Append(@, Shutdown),
                        !.started = @ \cup {node}]
        ELSE IF pending = <<>>
        THEN IF node \notin DOMAIN node2collection
             THEN \* self.node2collection[node] raises
                  [st EXCEPT !.res = "KeyError"]
             ELSE [st EXCEPT
                      !.node2pending[i] =
                          <<node, Range(Len(node2collection[node]))>>,
                      !.sent[node] = @ \o <<RuntestAll, Shutdown>>,
                      !.started = @ \cup {node}]
        ELSE [st EXCEPT !.sent[node] = Append(@, RuntestSome(pending)),
                        !.started = @ \cup {node}]

RECURSIVE ScheduleLoop(_, _)
ScheduleLoop(st, i) ==
    IF i > Len(st.node2pending) \/ st.res # "ok" THEN st
    ELSE ScheduleLoop(ScheduleNode(st, i), i + 1)

\* without the assertion: the loop runs whether or not the collection is
\* complete
schedule_unasserted ==
    LET st == ScheduleLoop([node2pending |-> node2pending,
                            started |-> started,
                            sent |-> sent,
                            res |-> "ok"], 1)
    IN  /\ node2pending' = st.node2pending
        /\ started' = st.started
        /\ sent' = st.sent
        /\ joined_since' = FALSE
        /\ last' = Call("schedule", st.res, "None", 0)
        /\ UNCHANGED <<node2collection, removed2pending,
                       collection_is_completed, removed_any, inherited,
                       orphaned>>

schedule ==
    IF ~collection_is_completed
    THEN /\ last' = Call("schedule", "AssertionError", "None", 0)
         /\ UNCHANGED <<sched, sent, history>>
    ELSE LET st == ScheduleLoop([node2pending |-> node2pending,
                                 started |-> started,
                                 sent |-> sent,
                                 res |-> "ok"], 1)
         IN  /\ node2pending' = st.node2pending
             /\ started' = st.started
             /\ sent' = st.sent
             /\ joined_since' = FALSE
             /\ last' = Call("schedule", st.res, "None", 0)
             /\ UNCHANGED <<node2collection, removed2pending,
                            collection_is_completed, removed_any, inherited,
                            orphaned>>

\* ------------------------------------------------------------ specification
\* fixed by __init__ and by the gateways, written by no method
config == <<gateway_spec, numnodes, allowed_workers>>

Next ==
    \/ \E node \in Workers : add_node(node) /\ UNCHANGED config
    \/ \E node \in Workers, collection \in Collections :
           add_node_collection(node, collection) /\ UNCHANGED config
    \/ \E node \in Workers, item_index \in Indices :
           mark_test_complete(node, item_index) /\ UNCHANGED config
    \/ \E node \in Workers : remove_node(node) /\ UNCHANGED config
    \/ schedule /\ UNCHANGED config

Spec == Init /\ [][Next]_vars

\* ===================================================================== claims
Registered(w) == DictHas(node2pending, w)
PendingOf(w) == DictGet(node2pending, w)
Dead(w) == DictHas(removed2pending, w)
\* A has an entry in removed_pending and no entry before it belongs to a
\* dead worker with the spec of B
FirstSameSpecDead(A, B) ==
    \E i \in DOMAIN removed2pending :
        /\ removed2pending[i][1] = A
        /\ gateway_spec[A] = gateway_spec[B]
        /\ \A j \in 1..(i - 1) :
               gateway_spec[removed2pending[j][1]] # gateway_spec[B]

\* C1 (orphan hand-off): once the collection is complete, when a registered
\* worker B reports a collection equal to the stored collection of dead
\* worker A, the first entry of removed_pending with B's spec, then right
\* after the report pending[B] is the list A left at its death (its pending
\* list without the head, in the same order) and A has no entry any more.
C1_OrphanHandOff ==
    [][\A A \in Workers, B \in Workers, c \in Collections :
          ( /\ last'.op = "add_node_collection"
            /\ collection_is_completed
            /\ Registered(B)
            /\ FirstSameSpecDead(A, B)
            /\ c = node2collection[A]
            /\ add_node_collection(B, c) )
          => /\ DictGet(node2pending', B) = orphaned[A]
             /\ ~DictHas(removed2pending', A)]_vars

\* a replacement holds two inherited indices right after its report
C1_Witness ==
    /\ last.op = "add_node_collection"
    /\ \E B \in inherited : Registered(B) /\ Len(PendingOf(B)) = 2
    /\ removed2pending = <<>>
    /\ removed_any

\* C2 (mismatch rejection): once the collection is complete, when a
\* registered worker B reports a collection that is not element for element
\* the stored collection of A, the first dead worker with B's spec, the
\* report emits exactly one diagnostic, pending[B] is what it was (empty for
\* a fresh replacement) and removed_pending is unchanged.
C2_MismatchRejected ==
    [][\A A \in Workers, B \in Workers, c \in Collections :
          ( /\ last'.op = "add_node_collection"
            /\ collection_is_completed
            /\ Registered(B)
            /\ FirstSameSpecDead(A, B)
            /\ c # node2collection[A]
            /\ add_node_collection(B, c) )
          => /\ last'.diag = 1
             /\ last'.res = "ok"
             /\ DictGet(node2pending', B) = PendingOf(B)
             /\ node2pending' = node2pending
             /\ removed2pending' = removed2pending]_vars

\* a fresh replacement was turned away: a diagnostic, its pending list empty,
\* the dead worker's entry still there
C2_Witness ==
    /\ last.op = "add_node_collection"
    /\ last.diag = 1
    /\ \E B \in Workers : Registered(B) /\ PendingOf(B) = <<>> /\ B \notin started
    /\ removed2pending # <<>>

\* C3 (orphaned work is never discarded): every index a dead worker left
\* unfinished stays owed until it is marked complete or reported as a crash
\* item: from one state to the next it stays in removed_pending or moves to
\* the pending list of the worker that inherits it, and an index a worker
\* inherited leaves that worker's pending list only by mark_complete or,
\* when the worker dies, as the crash item or into removed_pending.
C3_OrphansKept ==
    [][ /\ \A A \in Workers :
              Dead(A) =>
              \A j \in DOMAIN DictGet(removed2pending, A) :
                 LET k == DictGet(removed2pending, A)[j] IN
                 \/ /\ DictHas(removed2pending', A)
                    /\ InList(DictGet(removed2pending', A), k)
                 \/ \E B \in inherited' :
                       /\ DictHas(node2pending', B)
                       /\ InList(DictGet(node2pending', B), k)
        /\ \A B \in inherited :
              Registered(B) =>
              \A j \in DOMAIN PendingOf(B) :
                 LET k == PendingOf(B)[j] IN
                 \/ /\ DictHas(node2pending', B)
                    /\ InList(DictGet(node2pending', B), k)
                 \/ /\ last'.op = "mark_test_complete"
                    /\ last'.res = "ok"
                    /\ mark_test_complete(B, k)
                 \/ /\ last'.op = "remove_node"
                    /\ last'.res = "ok"
                    /\ remove_node(B)
                    /\ \/ j = 1 /\ last'.ret # "None"
                       \/ /\ DictHas(removed2pending', B)
                          /\ InList(DictGet(removed2pending', B), k)
      ]_vars

\* C4 (I3): an entry of removed_pending goes away only by being installed,
\* as it is, into the pending list of the one worker that reports, and then
\* that worker has the dead worker's spec and reported the dead worker's
\* stored collection; a report that changes a pending list once the
\* collection is complete uses up the entry it installs, so no entry is
\* installed twice.
C4_ClaimedOnce ==
    [][ /\ \A A \in Workers :
              (Dead(A) /\ ~DictHas(removed2pending', A)) =>
              \E B \in Workers :
                 /\ Registered(B)
                 /\ gateway_spec[B] = gateway_spec[A]
                 /\ \E c \in Collections :
                       c = node2collection[A] /\ add_node_collection(B, c)
                 /\ DictGet(node2pending', B) = DictGet(removed2pending, A)
                 /\ \A w \in Workers \ {B} :
                       Registered(w) =>
                       /\ DictHas(node2pending', w)
                       /\ DictGet(node2pending', w) = PendingOf(w)
        /\ \A B \in Workers, c \in Collections :
              ( /\ last'.op = "add_node_collection"
                /\ collection_is_completed
                /\ Registered(B)
                /\ add_node_collection(B, c)
                /\ DictGet(node2pending', B) # PendingOf(B) )
              => \E A \in Workers :
                    /\ Dead(A)
                    /\ ~DictHas(removed2pending', A)
                    /\ DictGet(node2pending', B) = DictGet(removed2pending, A)
      ]_vars

\* a hand-off has just emptied removed_pending: the heir holds the list and a
\* registered worker of another spec holds nothing
C4_Witness ==
    /\ last.op = "add_node_collection"
    /\ removed2pending = <<>>
    /\ \E B \in inherited, w \in Workers :
          /\ Registered(B) /\ PendingOf(B) # <<>>
          /\ Registered(w) /\ PendingOf(w) = <<>>
          /\ gateway_spec[w] # gateway_spec[B]

\* run commands and shutdown commands in a command sequence
RunCommands(cmds) ==
    Cardinality({i \in DOMAIN cmds : cmds[i].cmd \in {"runtest_all", "runtest_some"}})
ShutdownCommands(cmds) ==
    Cardinality({i \in DOMAIN cmds : cmds[i].cmd = "shutdown"})

\* C5 (idempotent dispatch, I5/P2): every worker receives at most one run
\* command and at most one shutdown command, started only grows, and a
\* dispatch made when no worker has joined since the previous dispatch sends
\* no command and changes no pending list.
C5_IdempotentDispatch ==
    /\ [](\A w \in Workers :
             RunCommands(sent[w]) <= 1 /\ ShutdownCommands(sent[w]) <= 1)
    /\ [][started \subseteq started']_vars
    /\ [][( /\ last'.op = "schedule"
            /\ collection_is_completed
            /\ ~joined_since
            /\ schedule )
          => sent' = sent /\ node2pending' = node2pending]_vars

\* the runs of P1: no allow-list, nobody removed, as many workers registered
\* as configured, all of them having reported
NoFailures ==
    /\ allowed_workers = {}
    /\ ~removed_any
    /\ Cardinality(DictKeys(node2pending)) = numnodes
    /\ collection_is_completed

\* C6 (P1, full coverage without failures): in such a run the first dispatch
\* leaves every worker with the pending list 0, 1, .. len(collection)-1 of
\* its own collection; from then on a pending list holds ascending indices of
\* that range; and once all of them have been completed tests_finished is
\* true and has_pending is false.
C6_FullCoverage ==
    /\ [][( /\ last'.op = "schedule"
            /\ NoFailures
            /\ started = {}
            /\ schedule )
          => /\ last'.res = "ok"
             /\ \A w \in DictKeys(node2pending) :
                   DictGet(node2pending', w) =
                       [i \in 1..Len(node2collection[w]) |-> i - 1]]_vars
    /\ []( (NoFailures /\ DictKeys(node2pending) \subseteq started) =>
           /\ \A w \in DictKeys(node2pending) :
                 /\ \A i \in DOMAIN PendingOf(w) :
                       PendingOf(w)[i] \in 0..(Len(node2collection[w]) - 1)
                 /\ \A i, j \in DOMAIN PendingOf(w) :
                       i < j => PendingOf(w)[i] < PendingOf(w)[j]
           /\ (\A w \in DictKeys(node2pending) : PendingOf(w) = <<>>)
                 => (tests_finished /\ ~has_pending) )

\* two workers ran everything and the last completion has just arrived
C6_Witness ==
    /\ NoFailures
    /\ numnodes = 2
    /\ DictKeys(node2pending) \subseteq started
    /\ \A w \in DictKeys(node2pending) : PendingOf(w) = <<>>
    /\ last.op = "mark_test_complete"
    /\ last.res = "ok"
    /\ tests_finished

\* excluded by the allow-list
Excluded(w) == allowed_workers # {} /\ GatewayId(w) \notin allowed_workers

\* C7 (P5, allow-list exclusion): an excluded worker never receives a run
\* command, and the dispatch that finds it registered and not started sends
\* it exactly one shutdown and marks it started; a worker that is not
\* excluded, not started and has nothing pending receives run-all and then
\* shutdown and is given the full range of its collection.
C7_AllowList ==
    /\ [](\A w \in Workers : Excluded(w) => RunCommands(sent[w]) = 0)
    /\ [][( /\ last'.op = "schedule"
            /\ collection_is_completed
            /\ schedule )
          => \A w \in DictKeys(node2pending) \ started :
                IF Excluded(w)
                THEN /\ sent'[w] = Append(sent[w], Shutdown)
                     /\ w \in started'
                ELSE PendingOf(w) = <<>> =>
                     /\ sent'[w] = sent[w] \o <<RuntestAll, Shutdown>>
                     /\ w \in DOMAIN node2collection
                     /\ DictGet(node2pending', w) =
                            [i \in 1..Len(node2collection[w]) |-> i - 1]]_vars

\* C8 (remove): removing a registered worker succeeds and deregisters it;
\* with nothing pending it returns no crash item and stores nothing; with
\* something pending it returns the item of its collection at the head
\* index and stores the rest, in order, under the worker exactly when there
\* is a rest.
C8_RemoveRegistered ==
    [][\A w \in Workers :
          ( /\ last'.op = "remove_node"
            /\ Registered(w)
            /\ remove_node(w) )
          => /\ last'.res = "ok"
             /\ ~DictHas(node2pending', w)
             /\ IF PendingOf(w) = <<>>
                THEN /\ last'.ret = "None"
                     /\ removed2pending' = removed2pending
                ELSE /\ w \in DOMAIN node2collection
                     /\ PendingOf(w)[1] < Len(node2collection[w])
                     /\ last'.ret = node2collection[w][PendingOf(w)[1] + 1]
                     /\ IF Len(PendingOf(w)) > 1
                        THEN /\ DictHas(removed2pending', w)
                             /\ DictGet(removed2pending', w) =
                                    SubSeq(PendingOf(w), 2, Len(PendingOf(w)))
                        ELSE removed2pending' = removed2pending]_vars

\* the call just made raised
Failed == last'.res # "ok"
\* nothing the scheduler holds changed and no command went out
Untouched == UNCHANGED <<sched, sent>>

\* C9 (usage violations fail atomically): dispatch before the collection is
\* complete, join of a registered worker, remove of a worker that is not
\* registered, mark_complete for a worker that is not registered and
\* mark_complete of an index that is not pending each fail, send nothing and
\* leave pending, collections, started, removed_pending and
\* collection_complete as they were.
C9_UsageViolations ==
    [][ /\ (last'.op = "schedule" /\ ~collection_is_completed /\ schedule)
              => (Failed /\ Untouched)
        /\ \A w \in Workers :
              /\ (last'.op = "add_node" /\ Registered(w) /\ add_node(w))
                    => (Failed /\ Untouched)
              /\ (last'.op = "remove_node" /\ ~Registered(w) /\ remove_node(w))
                    => (Failed /\ Untouched)
              /\ \A i \in Indices :
                    ( /\ last'.op = "mark_test_complete"
                      /\ \/ ~Registered(w)
                         \/ ~InList(PendingOf(w), i)
                      /\ mark_test_complete(w, i) )
                    => (Failed /\ Untouched)
      ]_vars

\* one worker died leaving work behind and a second remove, of a worker that
\* is not registered, has just failed
C9_Witness ==
    /\ last.op = "remove_node"
    /\ last.res = "KeyError"
    /\ removed_any
    /\ removed2pending # <<>>
    /\ node2pending = <<>>

\* C10 (dispatch reaches everyone): a dispatch made once the collection is
\* complete ends without error and leaves every registered worker started.
C10_DispatchStartsAll ==
    [][( /\ last'.op = "schedule"
         /\ collection_is_completed
         /\ schedule )
       => /\ last'.res = "ok"
          /\ DictKeys(node2pending') \subseteq started']_vars

\* registered, reported nothing while the collection was incomplete (so no
\* collection is stored for it) and inherited nothing
Idle(w) ==
    /\ Registered(w)
    /\ w \notin DOMAIN node2collection
    /\ w \notin inherited

C12_CollectionsRecorded ==
    /\ [][\A w \in Workers, c \in Collections :
             ( /\ last'.op = "add_node_collection"
               /\ Registered(w)
               /\ add_node_collection(w, c) )
             => /\ w \in DOMAIN node2collection'
                /\ node2collection'[w] = c]_vars
    /\ [][DOMAIN node2collection \subseteq DOMAIN node2collection']_vars

\* C13 (I4): in every reachable state every registered worker with a
\* non-empty pending list has a stored collection, and every index in the
\* list is at least 0 and less than the length of that collection.
C13_IndicesInRange ==
    \A w \in Workers :
       (Registered(w) /\ PendingOf(w) # <<>>) =>
       /\ w \in DOMAIN node2collection
       /\ \A j \in DOMAIN PendingOf(w) :
             /\ PendingOf(w)[j] >= 0
             /\ PendingOf(w)[j] < Len(node2collection[w])

\* collections recorded so far
Recorded == Cardinality(DOMAIN node2collection)

\* C14 (I2): collection_is_completed is false before any call; it becomes
\* true only in the report that brings the number of recorded collections
\* from below numnodes to numnodes, so it is true exactly when that many
\* collections are recorded; and once true it stays true under every
\* operation, removals included.
C14_CompleteMonotonic ==
    /\ [](last.op = "init" => ~collection_is_completed)
    /\ [](collection_is_completed <=> Recorded >= numnodes)
    /\ [][(~collection_is_completed /\ collection_is_completed')
          => /\ last'.op = "add_node_collection"
             /\ last'.res = "ok"
             /\ Recorded < numnodes
             /\ Cardinality(DOMAIN node2collection') = numnodes]_vars
    /\ [][collection_is_completed => collection_is_completed']_vars

\* two collections completed the run and every worker has since been
\* removed: the flag is still set
C14_Witness ==
    /\ collection_is_completed
    /\ numnodes = 2
    /\ last.op = "remove_node"
    /\ last.res = "ok"
    /\ node2pending = <<>>

\* C15 (orphaned work blocks completion): tests_finished is true exactly
\* when the collection is complete, removed_pending is empty and every
\* registered worker has fewer than two indices pending; so it is false
\* whenever removed_pending is non-empty, and removed_pending loses an entry
\* only in the report of a registered worker with the dead worker's spec and
\* the dead worker's stored collection: until such a report, and after a
\* mismatch in particular, tests_finished stays false.
C15_OrphansBlockFinish ==
    /\ [](tests_finished <=>
             /\ collection_is_completed
             /\ removed2pending = <<>>
             /\ \A w \in Workers : Registered(w) => Len(PendingOf(w)) < 2)
    /\ [](removed2pending # <<>> => ~tests_finished)
    /\ [][(removed2pending # <<>> /\ tests_finished')
          => \E A \in Workers, B \in Workers :
                /\ Dead(A)
                /\ Registered(B)
                /\ gateway_spec[A] = gateway_spec[B]
                /\ \E c \in Collections :
                      c = node2collection[A] /\ add_node_collection(B, c)]_vars
    /\ [][(last'.op = "add_node_collection" /\ last'.diag = 1)
          => (removed2pending' # <<>> /\ ~tests_finished')]_vars

\* a replacement has just been turned away for its collection; nobody
\* registered has two indices left, and the dead worker's entry alone keeps
\* tests_finished false
C15_Witness ==
    /\ last.op = "add_node_collection"
    /\ last.diag = 1
    /\ removed2pending # <<>>
    /\ collection_is_completed
    /\ \A w \in Workers : Registered(w) => Len(PendingOf(w)) < 2
    /\ ~tests_finished

\* C16 (pending implies collected): while the collection is not complete
\* every registered worker's pending list is empty, so has_pending is true
\* only once the collection is complete; a pending list becomes non-empty
\* only in a dispatch or in a report, both made after completion.
C16_PendingAfterCollection ==
    /\ [](~collection_is_completed =>
             \A w \in Workers : Registered(w) => PendingOf(w) = <<>>)
    /\ [](has_pending => collection_is_completed)
    /\ [][\A w \in Workers :
             ( /\ DictHas(node2pending', w)
               /\ DictGet(node2pending', w) # <<>>
               /\ (Registered(w) => PendingOf(w) = <<>>) )
             => /\ collection_is_completed
                /\ last'.op \in {"schedule", "add_node_collection"}]_vars

\* a dispatch was attempted with one of two collections in: it failed and
\* the workers, one of which has reported, hold nothing
C16_Witness ==
    /\ ~collection_is_completed
    /\ numnodes = 2
    /\ Recorded = 1
    /\ last.op = "schedule"
    /\ Len(node2pending) = 2
    /\ ~has_pending

\* C17 (command order per branch): in a dispatch made once the collection is
\* complete, every registered worker that is allowed and not yet started is
\* sent, when its pending list is empty, run-all and then shutdown and
\* nothing else; and when its pending list is not empty, one run-subset
\* command carrying that list and nothing else, its pending list staying as
\* it was.
C17_DispatchOrder ==
    [][( /\ last'.op = "schedule"
         /\ collection_is_completed
         /\ schedule )
       => \A w \in DictKeys(node2pending) \ started :
             ~Excluded(w) =>
             IF PendingOf(w) = <<>>
             THEN sent'[w] = sent[w] \o <<RuntestAll, Shutdown>>
             ELSE /\ sent'[w] = Append(sent[w], RuntestSome(PendingOf(w)))
                  /\ DictGet(node2pending', w) = PendingOf(w)]_vars

\* the same, for the dispatches that end without error
C17_DispatchOrder_ok ==
    [][( /\ last'.op = "schedule"
         /\ last'.res = "ok"
         /\ collection_is_completed
         /\ schedule )
       => \A w \in DictKeys(node2pending) \ started :
             ~Excluded(w) =>
             IF PendingOf(w) = <<>>
             THEN sent'[w] = sent[w] \o <<RuntestAll, Shutdown>>
             ELSE /\ sent'[w] = Append(sent[w], RuntestSome(PendingOf(w)))
                  /\ DictGet(node2pending', w) = PendingOf(w)]_vars

\* removed_pending without the entry of A, the other entries in their order
WithoutEntry(A) == SelectSeq(removed2pending, LAMBDA e : e[1] # A)

\* C18 (one entry per report): a report made once the collection is complete
\* looks only at the first entry of removed_pending whose worker has the
\* reporter's spec.  If the reported collection is that worker's stored
\* collection, that entry alone is removed, every other entry staying in
\* place, and its list becomes the reporter's pending list; if not, no entry
\* is removed and no pending list changes, even when a later entry of the
\* same spec has the reported collection.  Without such an entry nothing
\* changes.
C18_FirstEntryOnly ==
    [][\A B \in Workers, c \in Collections :
          ( /\ last'.op = "add_node_collection"
            /\ collection_is_completed
            /\ Registered(B)
            /\ add_node_collection(B, c) )
          => /\ Len(removed2pending') >= Len(removed2pending) - 1
             /\ \A A \in Workers :
                   FirstSameSpecDead(A, B) =>
                   IF c = node2collection[A]
                   THEN /\ removed2pending' = WithoutEntry(A)
                        /\ DictGet(node2pending', B) =
                               DictGet(removed2pending, A)
                   ELSE /\ removed2pending' = removed2pending
                        /\ node2pending' = node2pending
             /\ (\A A \in Workers : ~FirstSameSpecDead(A, B)) =>
                   /\ removed2pending' = removed2pending
                   /\ node2pending' = node2pending]_vars

\* a worker that died leaving an entry has joined again and has just been
\* handed the list of another dead worker of its spec, the first entry; its
\* own entry, the second, is still there
C18_Witness ==
    /\ last.op = "add_node_collection"
    /\ last.diag = 0
    /\ Len(removed2pending) = 1
    /\ \E B \in inherited :
          /\ Registered(B)
          /\ PendingOf(B) # <<>>
          /\ Dead(B)

\* C19 (frame of mark_complete): marking index i complete for a registered
\* worker w that has i pending succeeds wherever i stands in the list, takes
\* exactly i out of pending[w], keeps the other indices in their order, and
\* changes no other worker's pending list, nor removed_pending, collections,
\* started, collection_complete or the commands sent.
C19_MarkCompleteFrame ==
    [][\A w \in Workers, i \in Indices :
          ( /\ last'.op = "mark_test_complete"
            /\ Registered(w)
            /\ InList(PendingOf(w), i)
            /\ mark_test_complete(w, i) )
          => /\ last'.res = "ok"
             /\ DictGet(node2pending', w) =
                    SelectSeq(PendingOf(w), LAMBDA x : x # i)
             /\ Len(DictGet(node2pending', w)) = Len(PendingOf(w)) - 1
             /\ Len(node2pending') = Len(node2pending)
             /\ \A k \in DOMAIN node2pending :
                   /\ node2pending'[k][1] = node2pending[k][1]
                   /\ node2pending[k][1] # w =>
                         node2pending'[k][2] = node2pending[k][2]
             /\ UNCHANGED <<removed2pending, node2collection, started,
                            collection_is_completed, sent>>]_vars

\* two workers were dispatched three items each; one has just had its
\* middle index completed first, the other still holds all three
C19_Witness ==
    /\ last.op = "mark_test_complete"
    /\ last.res = "ok"
    /\ \E w \in Workers, v \in Workers :
          /\ Registered(w) /\ PendingOf(w) = <<0, 2>>
          /\ Registered(v) /\ PendingOf(v) = <<0, 1, 2>>

\* C20 (an excluded worker owes nothing): in every reachable state a
\* registered worker that the allow-list excludes has an empty pending list.
C20_ExcludedOwesNothing ==
    \A w \in Workers : (Registered(w) /\ Excluded(w)) => PendingOf(w) = <<>>

====
